---- MODULE Spec2Model ----
(***************************************************************************)
(* Model of the SKU codec of src/src/lib.rs: the formatter (Display for    *)
(* SKU), the strict decoder (TryFrom<&str>), the lossy decoder             *)
(* (SKU::from_str) and the element dispatcher (parse_sku_element).         *)
(*                                                                         *)
(* A char is a one-character string ("u", "7", ";") or the name of a       *)
(* multi-byte code point ("U+1F34C"); a &str is a sequence of chars.       *)
(* A u32 is a pair <<hi, lo>> of 16-bit limbs (value hi * 2^16 + lo), an   *)
(* i32 is an integer in I32_MIN..I32_MAX.  Option<T> is <<>> (None) or     *)
(* <<v>> (Some(v)).  An enum value is <<type name, numeric code>>.         *)
(***************************************************************************)
EXTENDS Integers, Sequences, FiniteSets, TLC

VARIABLES string, strict, lossy, out, sku, parsed, element, ret, split_at, calls

vars == <<string, strict, lossy, out, sku, parsed, element, ret, split_at, calls>>

----------------------------------------------------------------------------
(* chars and strings *)

Digits == <<"0", "1", "2", "3", "4", "5", "6", "7", "8", "9">>

Banana == "U+1F34C"

ArabicThree == "U+0663"

len_utf8(c) == IF c = Banana THEN 4 ELSE IF c = ArabicThree THEN 2 ELSE 1

len(s) ==
    LET of_width(w) == Cardinality({ i \in 1..Len(s) : len_utf8(s[i]) = w })
    IN  of_width(1) + 2 * of_width(2) + 4 * of_width(4)

(* is_digit with char::is_numeric in place of char::is_digit(10) *)
is_numeric(c) == (\E i \in 1..10 : Digits[i] = c) \/ c = ArabicThree

is_digit(c) == \E i \in 1..10 : Digits[i] = c

to_digit(c) == (CHOOSE i \in 1..10 : Digits[i] = c) - 1

from_digit(d) == Digits[d + 1]

is_char_boundary(s, index) == \E k \in 0..Len(s) : len(SubSeq(s, 1, k)) = index

(* split with str::split_terminator in place of str::split: no empty last
   token after a trailing delimiter *)
split_terminator(s) ==
    LET delims == { i \in 1..Len(s) : s[i] = ";" }
        n == Cardinality(delims)
        at(k) == IF k = 0 THEN 0
                 ELSE IF k = n + 1 THEN Len(s) + 1
                 ELSE CHOOSE i \in delims : Cardinality({ j \in delims : j < i }) = k - 1
        all == [k \in 1..(n + 1) |-> SubSeq(s, at(k - 1) + 1, at(k) - 1)]
    IN  IF all[n + 1] = <<>> THEN SubSeq(all, 1, n) ELSE all

split(s) ==
    LET delims == { i \in 1..Len(s) : s[i] = ";" }
        n == Cardinality(delims)
        at(k) == IF k = 0 THEN 0
                 ELSE IF k = n + 1 THEN Len(s) + 1
                 ELSE CHOOSE i \in delims : Cardinality({ j \in delims : j < i }) = k - 1
    IN  [k \in 1..(n + 1) |-> SubSeq(s, at(k - 1) + 1, at(k) - 1)]

----------------------------------------------------------------------------
(* integers *)

I32_MAX == 2147483647

I32_MIN == -I32_MAX - 1

Limb == 65536

u32(n) == <<n \div Limb, n % Limb>>

Ok(v) == [ok |-> TRUE, val |-> v]

Err(e) == [ok |-> FALSE, err |-> e]

IntError(kind) == Err(kind)

RECURSIVE parse_i32_digits(_, _, _)
parse_i32_digits(digits, is_positive, result) ==
    IF digits = <<>> THEN Ok(result)
    ELSE IF ~is_digit(Head(digits)) THEN IntError("InvalidDigit")
    ELSE LET x == to_digit(Head(digits))
         IN  IF is_positive
             THEN IF result > (I32_MAX - x) \div 10
                  THEN IntError("PosOverflow")
                  ELSE parse_i32_digits(Tail(digits), is_positive, result * 10 + x)
             ELSE IF -result > (I32_MAX - (IF x = 0 THEN 0 ELSE x - 1)) \div 10
                  THEN IntError("NegOverflow")
                  ELSE parse_i32_digits(Tail(digits), is_positive, result * 10 - x)

parse_i32(src) ==
    IF src = <<>> THEN IntError("Empty")
    ELSE IF src = <<"+">> \/ src = <<"-">> THEN IntError("InvalidDigit")
    ELSE IF Head(src) = "+" THEN parse_i32_digits(Tail(src), TRUE, 0)
    ELSE IF Head(src) = "-" THEN parse_i32_digits(Tail(src), FALSE, 0)
    ELSE parse_i32_digits(src, TRUE, 0)

RECURSIVE parse_u32_digits(_, _)
parse_u32_digits(digits, result) ==
    IF digits = <<>> THEN Ok(result)
    ELSE IF ~is_digit(Head(digits)) THEN IntError("InvalidDigit")
    ELSE LET lo == result[2] * 10 + to_digit(Head(digits))
             hi == result[1] * 10 + (lo \div Limb)
         IN  IF hi >= Limb
             THEN IntError("PosOverflow")
             ELSE parse_u32_digits(Tail(digits), <<hi, lo % Limb>>)

str_parse_u32(src) ==
    IF src = <<>> THEN IntError("Empty")
    ELSE IF src = <<"+">> \/ src = <<"-">> THEN IntError("InvalidDigit")
    ELSE IF Head(src) = "+" THEN parse_u32_digits(Tail(src), u32(0))
    ELSE parse_u32_digits(src, u32(0))

RECURSIVE u32_to_string(_)
u32_to_string(n) ==
    LET t == (n[1] % 10) * Limb + n[2]
        q == <<n[1] \div 10, t \div 10>>
    IN  IF q = u32(0) THEN <<from_digit(t % 10)>>
        ELSE u32_to_string(q) \o <<from_digit(t % 10)>>

RECURSIVE i32_digits(_)
i32_digits(n) ==
    LET d == IF n >= 0 THEN n % 10 ELSE (10 - (n % 10)) % 10
        q == IF n >= 0 THEN n \div 10 ELSE (n + d) \div 10
    IN  IF q = 0 THEN <<from_digit(d)>>
        ELSE i32_digits(q) \o <<from_digit(d)>>

i32_to_string(n) == IF n < 0 THEN <<"-">> \o i32_digits(n) ELSE i32_digits(n)

----------------------------------------------------------------------------
(* tf2_enum: the numeric-code domains used by the codec *)

EnumCodes(T) ==
    CASE T = "Quality" -> 0..15
      [] T = "KillstreakTier" -> 1..3
      [] T = "Wear" -> 1..5
      [] T = "Paint" -> {3100495, 1315860, 15185211, 16738740}
      [] T = "Sheen" -> 1..7
      [] T = "Killstreaker" -> 2002..2008

try_from_primitive(T, number) ==
    IF \E c \in EnumCodes(T) : u32(c) = number
    THEN Ok(<<T, number>>)
    ELSE Err(number)

u32_from(e) == e[2]

Quality(c) == <<"Quality", u32(c)>>

Normal == Quality(0)

Rarity2 == Quality(2)

----------------------------------------------------------------------------
(* ParseError, parse_u32, parse_enum_u32 *)

ParseInt(key, error) == [type |-> "ParseInt", key |-> key, error |-> error]

InvalidFormat == [type |-> "InvalidFormat"]

InvalidValue(key, number) == [type |-> "InvalidValue", key |-> key, number |-> number]

map_err_ParseInt(r, key) == IF r.ok THEN r ELSE Err(ParseInt(key, r.err))

parse_u32(key, value) == map_err_ParseInt(str_parse_u32(value), key)

map_err_InvalidValue(e, key) == IF e.ok THEN e ELSE Err(InvalidValue(key, e.err))

enum_try_from(T, key, n) ==
    IF ~n.ok THEN n ELSE map_err_InvalidValue(try_from_primitive(T, n.val), key)

parse_enum_u32(T, key, s) == enum_try_from(T, key, parse_u32(key, s))

----------------------------------------------------------------------------
(* SKU *)

None == <<>>

Some(v) == <<v>>

default ==
    [defindex |-> 0, quality |-> Normal, craftable |-> TRUE,
     australium |-> FALSE, strange |-> FALSE, festivized |-> FALSE,
     particle |-> None, skin |-> None, killstreak_tier |-> None,
     wear |-> None, target_defindex |-> None, output_defindex |-> None,
     output_quality |-> None, craft_number |-> None, crate_number |-> None,
     paint |-> None, sheen |-> None, killstreaker |-> None]

new(defindex, quality) ==
    [default EXCEPT !.defindex = defindex, !.quality = quality]

----------------------------------------------------------------------------
(* parse_sku_element *)

Panic == [ok |-> FALSE, panic |-> TRUE]

is_panic(r) == "panic" \in DOMAIN r

(* walk_back without the `break`: every digit of the element is counted *)
walk_back_all(chars, n) ==
    n - Cardinality({ i \in 1..Len(chars) : \E d \in 1..10 : Digits[d] = chars[i] })

RECURSIVE walk_back(_, _)
walk_back(chars, n) ==
    IF chars = <<>> THEN n
    ELSE IF is_digit(chars[Len(chars)])
         THEN walk_back(SubSeq(chars, 1, Len(chars) - 1), n - 1)
         ELSE n

str_split_at(s, mid) ==
    IF is_char_boundary(s, mid)
    THEN LET k == CHOOSE j \in 0..Len(s) : len(SubSeq(s, 1, j)) = mid
         IN  Ok(<<SubSeq(s, 1, k), SubSeq(s, k + 1, Len(s))>>)
    ELSE Panic

(* assign that clears the field when the value does not parse *)
assign_clear(sku_, field, r) ==
    IF r.ok
    THEN [parsed |-> [sku_ EXCEPT ![field] = Some(r.val)], ret |-> Ok(<<>>)]
    ELSE [parsed |-> [sku_ EXCEPT ![field] = None], ret |-> r]

assign(sku_, field, r) ==
    IF r.ok
    THEN [parsed |-> [sku_ EXCEPT ![field] = Some(r.val)], ret |-> Ok(<<>>)]
    ELSE [parsed |-> sku_, ret |-> r]

assign_u32(sku_, field, key, value) == assign(sku_, field, parse_u32(key, value))

assign_enum_u32(sku_, field, T, key, value) ==
    assign(sku_, field, parse_enum_u32(T, key, value))

match_name(sku_, name, value) ==
    CASE name = <<"u">> -> assign_u32(sku_, "particle", "particle", value)
      [] name = <<"w">> -> assign_enum_u32(sku_, "wear", "Wear", "wear", value)
      [] name = <<"n">> -> assign_u32(sku_, "craft_number", "craft number", value)
      [] name = <<"c">> -> assign_u32(sku_, "crate_number", "crate number", value)
      [] name = <<"p">> -> assign_enum_u32(sku_, "paint", "Paint", "paint", value)
      [] name = <<"p", "k">> -> assign_u32(sku_, "skin", "skin", value)
      [] name = <<"k", "t", "-">> ->
            assign_enum_u32(sku_, "killstreak_tier", "KillstreakTier", "killstreak tier", value)
      [] name = <<"t", "d", "-">> ->
            assign_u32(sku_, "target_defindex", "target defindex", value)
      [] name = <<"o", "d", "-">> ->
            assign_u32(sku_, "output_defindex", "output defindex", value)
      [] name = <<"o", "q", "-">> ->
            assign_enum_u32(sku_, "output_quality", "Quality", "output quality", value)
      [] name = <<"k", "s", "-">> -> assign_enum_u32(sku_, "sheen", "Sheen", "sheen", value)
      [] name = <<"k", "e", "-">> ->
            assign_enum_u32(sku_, "killstreaker", "Killstreaker", "killstreaker", value)
      [] name = <<"u", "n", "c", "r", "a", "f", "t", "a", "b", "l", "e">> ->
            [parsed |-> [sku_ EXCEPT !.craftable = FALSE], ret |-> Ok(<<>>)]
      [] name = <<"a", "u", "s", "t", "r", "a", "l", "i", "u", "m">> ->
            [parsed |-> [sku_ EXCEPT !.australium = TRUE], ret |-> Ok(<<>>)]
      [] name = <<"s", "t", "r", "a", "n", "g", "e">> ->
            [parsed |-> [sku_ EXCEPT !.strange = TRUE], ret |-> Ok(<<>>)]
      [] name = <<"f", "e", "s", "t", "i", "v", "e">> ->
            [parsed |-> [sku_ EXCEPT !.festivized = TRUE], ret |-> Ok(<<>>)]
      [] OTHER -> [parsed |-> sku_, ret |-> Ok(<<>>)]

(* match_name_value whose flag arms match only a bare flag name: a flag name
   followed by digits is ignored *)
match_name_value_bare_flags(sku_, nv) ==
    IF is_panic(nv)
    THEN [parsed |-> sku_, ret |-> Panic]
    ELSE IF nv.val[2] # <<>>
            /\ nv.val[1] \in { <<"u", "n", "c", "r", "a", "f", "t", "a", "b", "l", "e">>,
                               <<"a", "u", "s", "t", "r", "a", "l", "i", "u", "m">>,
                               <<"s", "t", "r", "a", "n", "g", "e">>,
                               <<"f", "e", "s", "t", "i", "v", "e">> }
    THEN [parsed |-> sku_, ret |-> Ok(<<>>)]
    ELSE match_name(sku_, nv.val[1], nv.val[2])

match_name_value(sku_, nv) ==
    IF is_panic(nv)
    THEN [parsed |-> sku_, ret |-> Panic]
    ELSE match_name(sku_, nv.val[1], nv.val[2])

parse_sku_element_at(sku_, elem, at) ==
    match_name_value(sku_, str_split_at(elem, at)) @@ [split_at |-> at]

parse_sku_element(sku_, elem) ==
    parse_sku_element_at(sku_, elem, walk_back(elem, len(elem)))

----------------------------------------------------------------------------
(* SKU::from_str, TryFrom<&str> for SKU, Display for SKU *)

(* from_str_loop with `if let` in place of `while let` *)
from_str_loop_first(sku_, sku_split) ==
    IF sku_split = <<>> THEN Ok(sku_)
    ELSE LET r == parse_sku_element(sku_, Head(sku_split))
         IN  IF is_panic(r.ret) THEN Panic ELSE Ok(r.parsed)

RECURSIVE from_str_loop(_, _)
from_str_loop(sku_, sku_split) ==
    IF sku_split = <<>> THEN Ok(sku_)
    ELSE LET r == parse_sku_element(sku_, Head(sku_split))
         IN  IF is_panic(r.ret) THEN Panic
             ELSE from_str_loop(r.parsed, Tail(sku_split))

(* the defindex step without the dispatch of a token 0 that is no defindex *)
from_str_defindex_no_dispatch(parsed_, defindex_str, d) ==
    IF d.ok
    THEN [parsed |-> [parsed_ EXCEPT !.defindex = d.val], ret |-> Ok(<<>>)]
    ELSE [parsed |-> [parsed_ EXCEPT !.defindex = -1], ret |-> Ok(<<>>)]

from_str_defindex(parsed_, defindex_str, d) ==
    IF d.ok
    THEN [parsed |-> [parsed_ EXCEPT !.defindex = d.val], ret |-> Ok(<<>>)]
    ELSE parse_sku_element([parsed_ EXCEPT !.defindex = -1], defindex_str)

from_str_quality(p, quality_str, q) ==
    IF is_panic(p.ret) THEN p
    ELSE IF q.ok
    THEN [parsed |-> [p.parsed EXCEPT !.quality = q.val], ret |-> Ok(<<>>)]
    ELSE parse_sku_element([p.parsed EXCEPT !.quality = Rarity2], quality_str)

from_str_rest(p, rest) ==
    IF is_panic(p.ret) THEN Panic ELSE from_str_loop(p.parsed, rest)

next_unwrap_or_default(sku_split, i) ==
    IF Len(sku_split) >= i THEN sku_split[i] ELSE <<>>

from_str_split(sku_split, defindex_str, quality_str) ==
    from_str_rest(
        from_str_quality(
            from_str_defindex(default, defindex_str, parse_i32(defindex_str)),
            quality_str,
            parse_enum_u32("Quality", "quality", quality_str)),
        SubSeq(sku_split, 3, Len(sku_split)))

from_str_tokens(sku_split) ==
    from_str_split(sku_split, next_unwrap_or_default(sku_split, 1),
                   next_unwrap_or_default(sku_split, 2))

from_str(s) == from_str_tokens(split(s))

(* try_from_loop with `if let` in place of `while let`: only the first
   element is dispatched *)
try_from_loop_first(sku_, sku_split) ==
    IF sku_split = <<>> THEN Ok(sku_)
    ELSE LET r == parse_sku_element(sku_, Head(sku_split))
         IN  IF ~r.ret.ok THEN r.ret ELSE Ok(r.parsed)

RECURSIVE try_from_loop(_, _)
try_from_loop(sku_, sku_split) ==
    IF sku_split = <<>> THEN Ok(sku_)
    ELSE LET r == parse_sku_element(sku_, Head(sku_split))
         IN  IF ~r.ret.ok THEN r.ret
             ELSE try_from_loop(r.parsed, Tail(sku_split))

(* try_from_parsed that reports the quality before the defindex *)
try_from_parsed_quality_first(sku_split, d, q) ==
    IF ~q.ok THEN q
    ELSE IF ~d.ok THEN Err(ParseInt("defindex", d.err))
    ELSE try_from_loop(new(d.val, q.val), SubSeq(sku_split, 3, Len(sku_split)))

try_from_parsed(sku_split, d, q) ==
    IF ~d.ok THEN Err(ParseInt("defindex", d.err))
    ELSE IF ~q.ok THEN q
    ELSE try_from_loop(new(d.val, q.val), SubSeq(sku_split, 3, Len(sku_split)))

try_from_tokens(sku_split) ==
    IF Len(sku_split) < 1 THEN Err(InvalidFormat)
    ELSE IF Len(sku_split) < 2 THEN Err(InvalidFormat)
    ELSE try_from_parsed(sku_split, parse_i32(sku_split[1]),
                         parse_enum_u32("Quality", "quality", sku_split[2]))

try_from(s) == try_from_tokens(split(s))

push_u32(s, prefix, opt) ==
    IF opt # None THEN s \o <<";">> \o prefix \o u32_to_string(opt[1]) ELSE s

push_enum(s, prefix, opt) ==
    IF opt # None THEN s \o <<";">> \o prefix \o u32_to_string(u32_from(opt[1])) ELSE s

(* push_flag with the condition inverted *)
push_flag_inverted(s, name, flag) == IF ~flag THEN s \o <<";">> \o name ELSE s

push_flag(s, name, flag) == IF flag THEN s \o <<";">> \o name ELSE s

fmt(self) ==
    LET s0 == i32_to_string(self.defindex) \o <<";">>
                 \o u32_to_string(u32_from(self.quality))
        s1 == push_u32(s0, <<"u">>, self.particle)
        s2 == push_flag(s1, <<"u", "n", "c", "r", "a", "f", "t", "a", "b", "l", "e">>,
                        ~self.craftable)
        s3 == push_flag(s2, <<"a", "u", "s", "t", "r", "a", "l", "i", "u", "m">>,
                        self.australium)
        s4 == push_flag(s3, <<"s", "t", "r", "a", "n", "g", "e">>, self.strange)
        s5 == push_enum(s4, <<"w">>, self.wear)
        s6 == push_u32(s5, <<"p", "k">>, self.skin)
        s7 == push_enum(s6, <<"k", "t", "-">>, self.killstreak_tier)
        s8 == push_flag(s7, <<"f", "e", "s", "t", "i", "v", "e">>, self.festivized)
        s9 == push_u32(s8, <<"c">>, self.crate_number)
        s10 == push_u32(s9, <<"n">>, self.craft_number)
        s11 == push_u32(s10, <<"t", "d", "-">>, self.target_defindex)
        s12 == push_u32(s11, <<"o", "d", "-">>, self.output_defindex)
        s13 == push_enum(s12, <<"o", "q", "-">>, self.output_quality)
        s14 == push_enum(s13, <<"p">>, self.paint)
        s15 == push_enum(s14, <<"k", "s", "-">>, self.sheen)
    IN  push_enum(s15, <<"k", "e", "-">>, self.killstreaker)

----------------------------------------------------------------------------
(* inputs *)

MaxTokens == 4

MaxFields == 2

MaxCalls == 3

(* texts tried as token 0: "1", "-1", "+1", "u43", "2147483648" *)
Tok0Pool ==
    { <<"1">>,
      <<"-", "1">>,
      <<"+", "1">>,
      <<"u", "4", "3">>,
      <<"2", "1", "4", "7", "4", "8", "3", "6", "4", "8">> }

(* texts tried as token 1: "5", "122", "+5", "", "pk1" *)
Tok1Pool ==
    { <<"5">>,
      <<"1", "2", "2">>,
      <<"+", "5">>,
      <<>>,
      <<"p", "k", "1">> }

(* texts tried as later tokens: "u43", "u", "u4294967296", "kt-3", "kt-0",
   "superspecial", "u<U+1F34C>122<U+1F34C>" *)
AttrPool ==
    { <<"u", "4", "3">>,
      <<"u">>,
      <<"u", "4", "2", "9", "4", "9", "6", "7", "2", "9", "6">>,
      <<"k", "t", "-", "3">>,
      <<"k", "t", "-", "0">>,
      <<"s", "u", "p", "e", "r", "s", "p", "e", "c", "i", "a", "l">>,
      <<"u", Banana, "1", "2", "2", Banana>> }

(* tokens handed to the dispatcher on its own *)
ElementPool ==
    { <<"u", "4", "3">>,
      <<"u", "7">>,
      <<"u">>,
      <<"u", "4", "2", "9", "4", "9", "6", "7", "2", "9", "6">>,
      <<"u", "4", "2", "9", "4", "9", "6", "7", "2", "9", "5">>,
      <<"k", "t", "-", "3">>,
      <<"k", "t", "-", "0">>,
      <<"p", "k", "1">>,
      <<"w", "6">>,
      <<"o", "q", "-", "1", "5">>,
      <<"s", "t", "r", "a", "n", "g", "e">>,
      <<"s", "t", "r", "a", "n", "g", "e", "7">>,
      <<"u", "n", "c", "r", "a", "f", "t", "a", "b", "l", "e">>,
      <<"s", "u", "p", "e", "r", "s", "p", "e", "c", "i", "a", "l">>,
      <<>>,
      <<"1", "2", "2">>,
      <<"-", "1">>,
      <<"u", Banana, "1", "2", "2">>,
      <<"u", Banana, "1", "2", "2", Banana>>,
      <<"u", "-", Banana, Banana, "1", "2", "2">>,
      <<Banana, Banana>>,
      <<"u", ArabicThree>>,
      <<"p", "k", "1", "5", Banana>>,
      <<Banana, "7">> }

RECURSIVE join(_)
join(tokens) ==
    IF tokens = <<>> THEN <<>>
    ELSE IF Len(tokens) = 1 THEN tokens[1]
    ELSE tokens[1] \o <<";">> \o join(Tail(tokens))

TokenSeqs ==
    {<<>>}
        \cup { <<a>> : a \in Tok0Pool }
        \cup UNION { { <<a, b>> \o r : a \in Tok0Pool, b \in Tok1Pool,
                                        r \in [1..n -> AttrPool] } : n \in 0..(MaxTokens - 2) }

Inputs == { join(ts) : ts \in TokenSeqs }

----------------------------------------------------------------------------
(* decoding a string with TryFrom<&str> and with SKU::from_str *)

Pending == [ok |-> FALSE, pending |-> TRUE]

is_pending(r) == "pending" \in DOMAIN r

Init ==
    /\ string \in Inputs
    /\ strict = Pending
    /\ lossy = Pending
    /\ out = Pending
    /\ sku = default
    /\ parsed = default
    /\ element = <<>>
    /\ ret = Pending
    /\ split_at = 0
    /\ calls = 0

TryFrom ==
    /\ is_pending(strict)
    /\ strict' = try_from(string)
    /\ UNCHANGED <<string, lossy, out, sku, parsed, element, ret, split_at, calls>>

FromStr ==
    /\ is_pending(lossy)
    /\ lossy' = from_str(string)
    /\ UNCHANGED <<string, strict, out, sku, parsed, element, ret, split_at, calls>>

Next == TryFrom \/ FromStr

Spec == Init /\ [][Next]_vars

----------------------------------------------------------------------------
(* building a Record, formatting it and decoding the formatted text *)

DefindexSamples == {I32_MIN, -1, 0, 264, I32_MAX}

QualitySamples == {Quality(0), Quality(11), Quality(15)}

Attributes == DOMAIN default \ {"defindex", "quality"}

FieldValues(f) ==
    CASE f \in {"craftable", "australium", "strange", "festivized"} -> BOOLEAN
      [] f = "particle" -> {None, Some(u32(0)), Some(u32(703)), Some(<<Limb - 1, Limb - 1>>)}
      [] f = "skin" -> {None, Some(u32(307))}
      [] f = "killstreak_tier" -> {None, Some(<<"KillstreakTier", u32(3)>>)}
      [] f = "wear" -> {None, Some(<<"Wear", u32(3)>>)}
      [] f = "target_defindex" -> {None, Some(u32(5021))}
      [] f = "output_defindex" -> {None, Some(u32(65536))}
      [] f = "output_quality" -> {None, Some(Quality(6))}
      [] f = "craft_number" -> {None, Some(u32(1))}
      [] f = "crate_number" -> {None, Some(u32(82))}
      [] f = "paint" -> {None, Some(<<"Paint", u32(3100495)>>)}
      [] f = "sheen" -> {None, Some(<<"Sheen", u32(1)>>)}
      [] f = "killstreaker" -> {None, Some(<<"Killstreaker", u32(2008)>>)}

(* a Record written as a struct literal with every attribute present *)
AllPresent ==
    [defindex |-> 424, quality |-> Quality(15), craftable |-> FALSE,
     australium |-> TRUE, strange |-> TRUE, festivized |-> TRUE,
     particle |-> Some(u32(703)), skin |-> Some(u32(307)),
     killstreak_tier |-> Some(<<"KillstreakTier", u32(3)>>),
     wear |-> Some(<<"Wear", u32(3)>>), target_defindex |-> Some(u32(5021)),
     output_defindex |-> Some(u32(65536)), output_quality |-> Some(Quality(6)),
     craft_number |-> Some(u32(1)), crate_number |-> Some(u32(82)),
     paint |-> Some(<<"Paint", u32(3100495)>>), sheen |-> Some(<<"Sheen", u32(1)>>),
     killstreaker |-> Some(<<"Killstreaker", u32(2008)>>)]

NonDefault(s) == { f \in Attributes : s[f] # default[f] }

InitRecord ==
    /\ sku \in { new(d, q) : d \in DefindexSamples, q \in QualitySamples } \cup {AllPresent}
    /\ string = <<>>
    /\ strict = Pending
    /\ lossy = Pending
    /\ out = Pending
    /\ parsed = default
    /\ element = <<>>
    /\ ret = Pending
    /\ split_at = 0
    /\ calls = 0

Assign ==
    /\ string = <<>>
    /\ \E f \in Attributes : \E v \in FieldValues(f) :
          /\ sku' = [sku EXCEPT ![f] = v]
          /\ Cardinality(NonDefault(sku')) <= MaxFields
    /\ UNCHANGED <<string, strict, lossy, out, parsed, element, ret, split_at, calls>>

ToSkuString ==
    /\ string = <<>>
    /\ string' = fmt(sku)
    /\ UNCHANGED <<strict, lossy, out, sku, parsed, element, ret, split_at, calls>>

Display ==
    /\ strict.ok
    /\ is_pending(out)
    /\ out' = Ok(fmt(strict.val))
    /\ UNCHANGED <<string, strict, lossy, sku, parsed, element, ret, split_at, calls>>

TryFromSkuString == string # <<>> /\ TryFrom

NextRecord == Assign \/ ToSkuString \/ TryFromSkuString \/ Display

SpecRecord == InitRecord /\ [][NextRecord]_vars

----------------------------------------------------------------------------
(* the dispatcher called token by token on a Record under construction *)

InitElement ==
    /\ parsed = default
    /\ element = <<>>
    /\ ret = Pending
    /\ split_at = 0
    /\ calls = 0
    /\ string = <<>>
    /\ strict = Pending
    /\ lossy = Pending
    /\ out = Pending
    /\ sku = default

ParseSkuElement ==
    /\ calls < MaxCalls
    /\ \E e \in ElementPool :
          LET r == parse_sku_element(parsed, e)
          IN  /\ element' = e
              /\ parsed' = r.parsed
              /\ ret' = r.ret
              /\ split_at' = r.split_at
    /\ calls' = calls + 1
    /\ UNCHANGED <<string, strict, lossy, out, sku>>

NextElement == ParseSkuElement

SpecElement == InitElement /\ [][NextElement]_vars

----------------------------------------------------------------------------
(* decoding strings built from flag tokens *)

(* texts tried as token 0: "1", "strange", "uncraftable7" *)
FlagTok0Pool ==
    { <<"1">>,
      <<"s", "t", "r", "a", "n", "g", "e">>,
      <<"u", "n", "c", "r", "a", "f", "t", "a", "b", "l", "e", "7">> }

(* texts tried as token 1: "5", "", "australium", "festive16" *)
FlagTok1Pool ==
    { <<"5">>,
      <<>>,
      <<"a", "u", "s", "t", "r", "a", "l", "i", "u", "m">>,
      <<"f", "e", "s", "t", "i", "v", "e", "1", "6">> }

(* texts tried as later tokens: "strange", "strange7", "uncraftable",
   "australium", "festive5", "festivized", "strange<U+0663>", "u" *)
FlagAttrPool ==
    { <<"s", "t", "r", "a", "n", "g", "e">>,
      <<"s", "t", "r", "a", "n", "g", "e", "7">>,
      <<"u", "n", "c", "r", "a", "f", "t", "a", "b", "l", "e">>,
      <<"a", "u", "s", "t", "r", "a", "l", "i", "u", "m">>,
      <<"f", "e", "s", "t", "i", "v", "e", "5">>,
      <<"f", "e", "s", "t", "i", "v", "i", "z", "e", "d">>,
      <<"s", "t", "r", "a", "n", "g", "e", ArabicThree>>,
      <<"u">> }

FlagTokenSeqs ==
    { <<a>> : a \in FlagTok0Pool }
        \cup UNION { { <<a, b>> \o r : a \in FlagTok0Pool, b \in FlagTok1Pool,
                                        r \in [1..n -> FlagAttrPool] } : n \in 0..(MaxTokens - 2) }

FlagInputs == { join(ts) : ts \in FlagTokenSeqs }

InitFlags ==
    /\ string \in FlagInputs
    /\ strict = Pending
    /\ lossy = Pending
    /\ out = Pending
    /\ sku = default
    /\ parsed = default
    /\ element = <<>>
    /\ ret = Pending
    /\ split_at = 0
    /\ calls = 0

NextFlags == TryFrom \/ FromStr

SpecFlags == InitFlags /\ [][NextFlags]_vars

----------------------------------------------------------------------------
(* The text grammar the properties are stated in, written without the     *)
(* decoder: decimal numerals are compared digit by digit.                  *)

AsciiDigits == {"0", "1", "2", "3", "4", "5", "6", "7", "8", "9"}

AllDigits(t) == \A i \in 1..Len(t) : t[i] \in AsciiDigits

(* the length of the maximal run of ASCII digits that ends the token *)
TrailingDigits(t) ==
    LET others == { i \in 1..Len(t) : t[i] \notin AsciiDigits }
    IN  IF others = {} THEN Len(t)
        ELSE Len(t) - (CHOOSE i \in others : \A j \in others : j <= i)

NamePart(t) == SubSeq(t, 1, Len(t) - TrailingDigits(t))

ValuePart(t) == SubSeq(t, Len(t) - TrailingDigits(t) + 1, Len(t))

LeadingZeros(ds) ==
    CHOOSE k \in 0..Len(ds) :
        /\ \A i \in 1..k : ds[i] = "0"
        /\ k < Len(ds) => ds[k + 1] # "0"

Significant(ds) ==
    IF LeadingZeros(ds) = Len(ds) THEN <<"0">>
    ELSE SubSeq(ds, LeadingZeros(ds) + 1, Len(ds))

DigitRank(c) == CHOOSE d \in 0..9 : Digits[d + 1] = c

NumeralLeq(a, b) ==
    \/ Len(a) < Len(b)
    \/ /\ Len(a) = Len(b)
       /\ \/ a = b
          \/ \E i \in 1..Len(a) :
                /\ \A j \in 1..(i - 1) : a[j] = b[j]
                /\ DigitRank(a[i]) < DigitRank(b[i])

Numeral(ds) == ds # <<>> /\ AllDigits(ds)

U32MaxText == <<"4", "2", "9", "4", "9", "6", "7", "2", "9", "5">>

I32MaxText == <<"2", "1", "4", "7", "4", "8", "3", "6", "4", "7">>

I32MinText == <<"2", "1", "4", "7", "4", "8", "3", "6", "4", "8">>

Unsigned(t) == IF t # <<>> /\ t[1] \in {"+", "-"} THEN Tail(t) ELSE t

(* the texts str::parse::<u32> and str::parse::<i32> accept *)
U32Text(t) ==
    LET ds == IF t # <<>> /\ t[1] = "+" THEN Tail(t) ELSE t
    IN  Numeral(ds) /\ NumeralLeq(Significant(ds), U32MaxText)

I32Text(t) ==
    /\ Numeral(Unsigned(t))
    /\ NumeralLeq(Significant(Unsigned(t)),
                  IF t[1] = "-" THEN I32MinText ELSE I32MaxText)

RECURSIVE NatOf(_)
NatOf(ds) == IF ds = <<>> THEN 0
             ELSE NatOf(SubSeq(ds, 1, Len(ds) - 1)) * 10 + DigitRank(ds[Len(ds)])

(* the value of a u32 numeral below 2^31, as a pair of limbs *)
U32Of(t) == LET n == NatOf(Significant(Unsigned(t))) IN <<n \div Limb, n % Limb>>

I32Of(t) ==
    LET sig == Significant(Unsigned(t))
    IN  IF t[1] # "-" THEN NatOf(sig)
        ELSE IF sig = I32MinText THEN I32_MIN
        ELSE -NatOf(sig)

(* name, field, error key and enum domain of the value-taking attributes *)
ValueTable ==
    { <<<<"u">>, "particle", "particle", "">>,
      <<<<"w">>, "wear", "wear", "Wear">>,
      <<<<"n">>, "craft_number", "craft number", "">>,
      <<<<"c">>, "crate_number", "crate number", "">>,
      <<<<"p">>, "paint", "paint", "Paint">>,
      <<<<"p", "k">>, "skin", "skin", "">>,
      <<<<"k", "t", "-">>, "killstreak_tier", "killstreak tier", "KillstreakTier">>,
      <<<<"t", "d", "-">>, "target_defindex", "target defindex", "">>,
      <<<<"o", "d", "-">>, "output_defindex", "output defindex", "">>,
      <<<<"o", "q", "-">>, "output_quality", "output quality", "Quality">>,
      <<<<"k", "s", "-">>, "sheen", "sheen", "Sheen">>,
      <<<<"k", "e", "-">>, "killstreaker", "killstreaker", "Killstreaker">> }

FlagTable ==
    { <<<<"u", "n", "c", "r", "a", "f", "t", "a", "b", "l", "e">>, "craftable">>,
      <<<<"a", "u", "s", "t", "r", "a", "l", "i", "u", "m">>, "australium">>,
      <<<<"s", "t", "r", "a", "n", "g", "e">>, "strange">>,
      <<<<"f", "e", "s", "t", "i", "v", "e">>, "festivized">> }

ValueNames == { row[1] : row \in ValueTable }

FlagNames == { row[1] : row \in FlagTable }

RowOf(name) == CHOOSE row \in ValueTable : row[1] = name

InDomain(T, t) ==
    \/ T = ""
    \/ /\ Len(Significant(Unsigned(t))) <= 9
       /\ NatOf(Significant(Unsigned(t))) \in EnumCodes(T)

(* a token with a recognized value-taking name and a value that is empty, *)
(* overflows u32 or is outside its enum domain                             *)
FailingToken(t) ==
    /\ NamePart(t) \in ValueNames
    /\ ~(U32Text(ValuePart(t)) /\ InDomain(RowOf(NamePart(t))[4], ValuePart(t)))

ValidValueToken(t) ==
    /\ NamePart(t) \in ValueNames
    /\ U32Text(ValuePart(t))
    /\ InDomain(RowOf(NamePart(t))[4], ValuePart(t))

UnknownToken(t) == NamePart(t) \notin (ValueNames \cup FlagNames)

QualityText(t) == U32Text(t) /\ InDomain("Quality", t)

tokens == split(string)

----------------------------------------------------------------------------
(* C1: round trip.  Strict decoding of the formatted text of a Record      *)
(* succeeds and returns that Record, and formatting the decoded Record     *)
(* gives the same text again.                                              *)
C1_RoundTrip ==
    /\ ~is_pending(strict) => strict = Ok(sku)
    /\ ~is_pending(out) => out = Ok(string)

C1_Witness ==
    /\ out = Ok(string)
    /\ strict = Ok(sku)
    /\ sku.defindex = I32_MIN
    /\ sku.particle = Some(<<Limb - 1, Limb - 1>>)
    /\ ~sku.craftable

----------------------------------------------------------------------------
(* the fixed order of the formatter's segments, with each segment's prefix *)
CanonOrder ==
    << <<"particle", <<"u">>>>,
       <<"craftable", <<"u", "n", "c", "r", "a", "f", "t", "a", "b", "l", "e">>>>,
       <<"australium", <<"a", "u", "s", "t", "r", "a", "l", "i", "u", "m">>>>,
       <<"strange", <<"s", "t", "r", "a", "n", "g", "e">>>>,
       <<"wear", <<"w">>>>,
       <<"skin", <<"p", "k">>>>,
       <<"killstreak_tier", <<"k", "t", "-">>>>,
       <<"festivized", <<"f", "e", "s", "t", "i", "v", "e">>>>,
       <<"crate_number", <<"c">>>>,
       <<"craft_number", <<"n">>>>,
       <<"target_defindex", <<"t", "d", "-">>>>,
       <<"output_defindex", <<"o", "d", "-">>>>,
       <<"output_quality", <<"o", "q", "-">>>>,
       <<"paint", <<"p">>>>,
       <<"sheen", <<"k", "s", "-">>>>,
       <<"killstreaker", <<"k", "e", "-">>>> >>

IsFlag(f) == f \in {"craftable", "australium", "strange", "festivized"}

IsEnum(f) ==
    f \in {"wear", "killstreak_tier", "output_quality", "paint", "sheen", "killstreaker"}

IsPresent(r, f) ==
    IF f = "craftable" THEN ~r.craftable
    ELSE IF IsFlag(f) THEN r[f]
    ELSE r[f] # None

CodeOf(r, f) == IF IsEnum(f) THEN r[f][1][2] ELSE r[f][1]

(* ds is the decimal numeral of the u32 n, without sign or leading zeros *)
CanonicalU32(ds, n) ==
    /\ Numeral(ds)
    /\ Significant(ds) = ds
    /\ str_parse_u32(ds) = Ok(n)

CanonicalI32(t, n) ==
    /\ t # <<>>
    /\ t[1] # "+"
    /\ Numeral(Unsigned(t))
    /\ Significant(Unsigned(t)) = Unsigned(t)
    /\ t[1] = "-" <=> n < 0
    /\ parse_i32(t) = Ok(n)

IsSegment(t, r, row) ==
    IF IsFlag(row[1]) THEN t = row[2]
    ELSE /\ Len(t) > Len(row[2])
         /\ SubSeq(t, 1, Len(row[2])) = row[2]
         /\ CanonicalU32(SubSeq(t, Len(row[2]) + 1, Len(t)), CodeOf(r, row[1]))

(* C2: the formatted text is "<defindex>;<quality code>" followed by one   *)
(* segment for exactly the fields that are present, in the fixed order,    *)
(* numbers and enum codes in canonical decimal; it is a function of the    *)
(* Record's value, whatever order the fields were assigned in.             *)
C2_Canonical ==
    string # <<>> =>
        LET toks == split(string)
            present == SelectSeq(CanonOrder, LAMBDA row : IsPresent(sku, row[1]))
        IN  /\ Len(toks) = 2 + Len(present)
            /\ CanonicalI32(toks[1], sku.defindex)
            /\ CanonicalU32(toks[2], sku.quality[2])
            /\ \A i \in 1..Len(present) : IsSegment(toks[2 + i], sku, present[i])

C2_Witness ==
    /\ string # <<>>
    /\ ~sku.craftable
    /\ sku.particle = Some(u32(703))
    /\ sku.defindex = -1
    /\ Len(split(string)) = 4

----------------------------------------------------------------------------
(* C3: whenever strict decoding of a string succeeds, lossy decoding of    *)
(* the same string returns the same Record.                                *)
C3_LossyAgrees ==
    (strict.ok /\ ~is_pending(lossy)) => lossy = strict

C3_Witness ==
    /\ strict.ok
    /\ lossy = strict
    /\ strict.val.particle # None
    /\ strict.val.killstreak_tier # None

----------------------------------------------------------------------------
IsParseInt(r, key) ==
    /\ ~r.ok
    /\ "err" \in DOMAIN r
    /\ r.err.type = "ParseInt"
    /\ r.err.key = key

IsInvalidFormat(r) == ~r.ok /\ "err" \in DOMAIN r /\ r.err = InvalidFormat

Min(S) == CHOOSE i \in S : \A j \in S : i <= j

(* the error a failing attribute token gives *)
IsErrorOf(r, t) ==
    LET key == RowOf(NamePart(t))[3]
    IN  IF U32Text(ValuePart(t))
        THEN r = Err(InvalidValue(key, U32Of(ValuePart(t))))
        ELSE IsParseInt(r, key)

(* C4: with at least two tokens, strict decoding fails exactly when token  *)
(* 0 is no i32, token 1 is no u32 or no quality code, or a later token has *)
(* a value-taking name and a value that is empty, overflows or is outside  *)
(* its domain; the error is that of the leftmost such token, with its key, *)
(* and the tokens to its right do not influence the result.                *)
C4_FirstError ==
    LET toks == tokens
    IN
        (~is_pending(strict) /\ Len(toks) >= 2) =>
            LET failing == { i \in 3..Len(toks) : FailingToken(toks[i]) }
            IN  IF ~I32Text(toks[1]) THEN IsParseInt(strict, "defindex")
                ELSE IF ~U32Text(toks[2]) THEN IsParseInt(strict, "quality")
                ELSE IF ~InDomain("Quality", toks[2])
                     THEN strict = Err(InvalidValue("quality", U32Of(toks[2])))
                ELSE IF failing # {}
                     THEN /\ IsErrorOf(strict, toks[Min(failing)])
                          /\ strict = try_from(join(SubSeq(toks, 1, Min(failing))))
                ELSE strict.ok

C4_Witness ==
    /\ string = <<"1", ";", "5", ";", "u", ";", "k", "t", "-", "0">>
    /\ strict = Err(ParseInt("particle", "Empty"))

----------------------------------------------------------------------------
(* C5: strict decoding returns the invalid-format error if and only if the *)
(* input contains no ';', whatever the lone token is.                      *)
C5_InvalidFormat ==
    ~is_pending(strict) =>
        (IsInvalidFormat(strict) <=> ~\E i \in 1..Len(string) : string[i] = ";")

C5_Witness ==
    /\ string = <<"u", "4", "3">>
    /\ strict = Err(InvalidFormat)

----------------------------------------------------------------------------
WithoutLater(toks, Drop(_)) ==
    SubSeq(toks, 1, 2) \o SelectSeq(SubSeq(toks, 3, Len(toks)), LAMBDA t : ~Drop(t))

(* C6: a token after position 1 whose name part is none of the sixteen     *)
(* table names is no error in either mode and changes no field: both       *)
(* decoders return what they return for the input without such tokens.     *)
C6_UnknownTolerated ==
    LET toks == tokens
    IN
        /\ (~is_pending(strict) /\ Len(toks) >= 2) =>
                strict = try_from(join(WithoutLater(toks, UnknownToken)))
        /\ (~is_pending(lossy) /\ Len(toks) >= 2) =>
                lossy = from_str(join(WithoutLater(toks, UnknownToken)))
        /\ (~is_pending(strict)
              /\ toks = <<<<"1">>, <<"5">>,
                           <<"s", "u", "p", "e", "r", "s", "p", "e", "c", "i", "a", "l">>>>) =>
                (strict.ok /\ fmt(strict.val) = <<"1", ";", "5">>)

C6_Witness ==
    /\ string = <<"1", ";", "5", ";", "s", "u", "p", "e", "r", "s", "p", "e", "c", "i", "a", "l">>
    /\ strict = Ok(new(1, Quality(5)))
    /\ lossy = strict

----------------------------------------------------------------------------
(* the tokens lossy decoding dispatches: token 0 when it is no i32, token  *)
(* 1 when it is no quality code, and every later token                     *)
Token1(toks) == IF Len(toks) >= 2 THEN toks[2] ELSE <<>>

LossyDispatched(toks) ==
    LET t1 == Token1(toks)
    IN (IF I32Text(toks[1]) THEN <<>> ELSE <<toks[1]>>)
        \o (IF QualityText(t1) THEN <<>> ELSE <<t1>>)
        \o SubSeq(toks, 3, Len(toks))

(* the value the last valid token named row[1] gives the field, if any *)
LastValid(ds, valid, row) ==
    LET at == { i \in valid : NamePart(ds[i]) = row[1] }
        last == CHOOSE i \in at : \A j \in at : j <= i
    IN  IF at = {} THEN None
        ELSE IF row[4] = "" THEN Some(U32Of(ValuePart(ds[last])))
        ELSE Some(<<row[4], U32Of(ValuePart(ds[last]))>>)

LossyExpected(toks) ==
    LET ds == LossyDispatched(toks)
        t1 == Token1(toks)
        valid == { i \in 1..Len(ds) : ValidValueToken(ds[i]) }
        flags == { NamePart(ds[i]) : i \in 1..Len(ds) } \cap FlagNames
        field(f) == IF valid = {} THEN None
                    ELSE LastValid(ds, valid, CHOOSE row \in ValueTable : row[2] = f)
        flag(f) == (CHOOSE row \in FlagTable : row[2] = f)[1] \in flags
    IN  [defindex |-> IF I32Text(toks[1]) THEN I32Of(toks[1]) ELSE -1,
         quality |-> IF QualityText(t1) THEN <<"Quality", U32Of(t1)>> ELSE Rarity2,
         craftable |-> ~flag("craftable"),
         australium |-> flag("australium"),
         strange |-> flag("strange"),
         festivized |-> flag("festivized"),
         particle |-> field("particle"),
         skin |-> field("skin"),
         killstreak_tier |-> field("killstreak_tier"),
         wear |-> field("wear"),
         target_defindex |-> field("target_defindex"),
         output_defindex |-> field("output_defindex"),
         output_quality |-> field("output_quality"),
         craft_number |-> field("craft_number"),
         crate_number |-> field("crate_number"),
         paint |-> field("paint"),
         sheen |-> field("sheen"),
         killstreaker |-> field("killstreaker")]

(* C7: lossy decoding returns a Record for every input; defindex is token  *)
(* 0 as an i32, else -1 with token 0 dispatched as an attribute; quality   *)
(* is token 1 as a quality code, else Rarity2 with token 1 dispatched.     *)
C7_LossyTotal ==
    LET toks == tokens
    IN
        ~is_pending(lossy) => lossy = Ok(LossyExpected(toks))

C7_Witness ==
    /\ string = <<"u", "4", "3", ";", "p", "k", "1", ";", "k", "t", "-", "0">>
    /\ lossy.ok
    /\ lossy.val.defindex = -1
    /\ lossy.val.quality = Rarity2
    /\ lossy.val.particle = Some(u32(43))
    /\ lossy.val.skin = Some(u32(1))
    /\ lossy.val.killstreak_tier = None

----------------------------------------------------------------------------
MultiByteTokens ==
    { <<"u", "-", Banana, Banana, "1", "2", "2">>,
      <<"u", Banana, "1", "2", "2">>,
      <<"u", Banana, "1", "2", "2", Banana>> }

(* C8: on every call of the dispatcher the split index is the token's byte *)
(* length minus its number of trailing ASCII digits, it lies on a char     *)
(* boundary and the split does not panic; a token with a non-digit char    *)
(* between 'u' and the digits, or after them, is no error and changes no   *)
(* field of the Record.                                                    *)
C8_MultiByteSafe ==
    [][ /\ split_at' = len(element') - TrailingDigits(element')
        /\ is_char_boundary(element', split_at')
        /\ ~is_panic(ret')
        /\ (element' \in MultiByteTokens
              \/ (element' # <<>> /\ element'[1] = "u" /\ UnknownToken(element')))
              => (ret'.ok /\ parsed' = parsed) ]_vars

C8_Witness ==
    /\ element = <<"u", Banana, "1", "2", "2", Banana>>
    /\ split_at = 12
    /\ ret.ok
    /\ parsed.particle = Some(u32(43))
    /\ parsed.skin = Some(u32(1))

----------------------------------------------------------------------------
(* C9: strict decoding rejects a token 0 or a token 1 that begins with     *)
(* '+' with an integer-parse error tagged "defindex" resp. "quality", and  *)
(* accepts a leading '-' on token 0.                                       *)
C9_NoLeadingPlus ==
    LET toks == tokens
    IN
        (~is_pending(strict) /\ Len(toks) >= 2) =>
            /\ (toks[1] # <<>> /\ toks[1][1] = "+") => IsParseInt(strict, "defindex")
            /\ (I32Text(toks[1]) /\ toks[1][1] # "+"
                  /\ toks[2] # <<>> /\ toks[2][1] = "+") => IsParseInt(strict, "quality")
            /\ string = <<"-", "1", ";", "5">> => (strict.ok /\ strict.val.defindex = -1)

----------------------------------------------------------------------------
(* C10: a token with a value-taking name and a failing value is an error   *)
(* and changes nothing: strict decoding fails on it, lossy decoding        *)
(* returns what it returns for the input without the failing tokens, the   *)
(* fields set by earlier and by later valid tokens included, and the       *)
(* dispatcher given the token again returns an error and the same Record.  *)
C10_FailingTokenNoEffect ==
    LET toks == tokens
    IN
        /\ (~is_pending(lossy) /\ Len(toks) >= 2) =>
                lossy = from_str(join(WithoutLater(toks, FailingToken)))
        /\ (~is_pending(strict) /\ Len(toks) >= 2
              /\ \E i \in 3..Len(toks) : FailingToken(toks[i])) =>
                (~strict.ok /\ ~is_panic(strict))
        /\ lossy.ok =>
                \A i \in 3..Len(toks) :
                    FailingToken(toks[i]) =>
                        LET r == parse_sku_element(lossy.val, toks[i])
                        IN  ~r.ret.ok /\ ~is_panic(r.ret) /\ r.parsed = lossy.val

C10_Witness ==
    /\ string = <<"u", "4", "3", ";", ";", "u", ";", "k", "t", "-", "3">>
    /\ lossy.ok
    /\ lossy.val.particle = Some(u32(43))
    /\ lossy.val.killstreak_tier = Some(<<"KillstreakTier", u32(3)>>)

----------------------------------------------------------------------------
FlagSet(row) == row[2] # "craftable"

StrictDispatched(toks) == SubSeq(toks, 3, Len(toks))

FlagsAsDispatched(val, ds) ==
    \A row \in FlagTable :
        (val[row[2]] = FlagSet(row)) <=> (\E i \in 1..Len(ds) : NamePart(ds[i]) = row[1])

BareFlag(t) == IF NamePart(t) \in FlagNames THEN NamePart(t) ELSE t

Bare(toks) == [i \in 1..Len(toks) |-> BareFlag(toks[i])]

FlagRow(t) == CHOOSE row \in FlagTable : row[1] = NamePart(t)

Decoded == (IF strict.ok THEN {strict.val} ELSE {}) \cup (IF lossy.ok THEN {lossy.val} ELSE {})

(* C11: a token whose name part is a flag name sets its flag whether or    *)
(* not digits follow the name and is never an error (the decoders return   *)
(* what they return with the digits removed, and the dispatcher given the  *)
(* token returns Ok and the Record with the flag set), no token resets a   *)
(* set flag, and after decoding in either mode craftable is false, resp.   *)
(* australium, strange, festivized is true, if and only if some dispatched *)
(* token has that flag's name part.                                        *)
C11_FlagTokens ==
    LET toks == tokens
    IN
        /\ strict.ok => FlagsAsDispatched(strict.val, StrictDispatched(toks))
        /\ lossy.ok => FlagsAsDispatched(lossy.val, LossyDispatched(toks))
        /\ ~is_pending(strict) => strict = try_from(join(Bare(toks)))
        /\ ~is_pending(lossy) => (lossy.ok /\ lossy = from_str(join(Bare(toks))))
        /\ \A s \in Decoded : \A i \in 1..Len(toks) :
                LET r == parse_sku_element(s, toks[i])
                IN  /\ NamePart(toks[i]) \in FlagNames =>
                            /\ r.ret = Ok(<<>>)
                            /\ r.parsed = [s EXCEPT ![FlagRow(toks[i])[2]] =
                                                        FlagSet(FlagRow(toks[i]))]
                    /\ \A row \in FlagTable :
                            s[row[2]] = FlagSet(row) => r.parsed[row[2]] = FlagSet(row)

C11_Witness ==
    /\ string = <<"1", ";", "5", ";", "s", "t", "r", "a", "n", "g", "e", "7", ";",
                  "u", "n", "c", "r", "a", "f", "t", "a", "b", "l", "e">>
    /\ strict.ok
    /\ strict.val.strange
    /\ ~strict.val.craftable
    /\ ~strict.val.australium
    /\ lossy = strict

====
